---- MODULE Spec2Model ----
(***************************************************************************)
(* A model of github.com/alexedwards/stack: middleware chains (stack.go)   *)
(* and the request context (context.go).                                   *)
(*                                                                         *)
(* Heap objects are modelled with identity: backing arrays of middleware   *)
(* slices live in `arrays`, Context objects in `ctxs`; a Chain value holds *)
(* a slice header (arr, len, cap) and a Context pointer, exactly as the Go *)
(* struct does.  The specifications share the definitions:                 *)
(*   SpecAppend  chain construction with New, Init and Append              *)
(*   Spec        chain construction and one request goroutine              *)
(*   SpecServe   two request goroutines on chains that are already built   *)
(*   SpecBase    rebasing a closed chain with ReInit                       *)
(*   SpecInject  BaseCtx and Inject on a closed chain                      *)
(*   SpecInit    a chain on a Context the program filled before Init       *)
(*   SpecNest    invocations of chains whose middleware nest or stop       *)
(*   SpecThen    closing a chain several times and appending to it after   *)
(*   SpecCtx     goroutines calling Get/Put/Delete/copy on shared          *)
(*               Contexts, one step per lock operation and per map access  *)
(*   SpecKV      one goroutine calling Get/Put/Delete on one Context       *)
(***************************************************************************)
EXTENDS Integers, Sequences, FiniteSets, TLC

VARIABLES
    arrays,   \* heap of backing arrays of []chainMiddleware, by array id
    chains,   \* the open Chain values the program holds
    closed,   \* the closedChain values the program holds
    ctxs,     \* heap of Context objects: id -> its map m
    held,     \* ids of the Contexts the program itself holds a pointer to
    req,      \* per request goroutine: its position in closedChain.ServeHTTP
    mu,       \* per Context: its sync.RWMutex (readers, writer)
    th,       \* per goroutine of SpecCtx: its position in a Context method
    copies    \* history: the <<source, copy>> pairs returned by Context.copy

vars == <<arrays, chains, closed, ctxs, held, req, mu, th, copies>>

chainVars == <<arrays, chains, closed, held, req>>
lockVars == <<mu, th, copies>>

----------------------------------------------------------------------------
(* Bounds *)

MaxChains == 4     \* open chain values kept by the program (SpecAppend)
MaxOpen == 2       \* open chain values kept by the program (Spec)
MaxSeeded == 3     \* open chain values kept by the program (SpecInit)
MaxNest == 3       \* middleware given to New (SpecNest)
MaxReused == 3     \* open chain values kept by the program (SpecThen)
MaxHeld == 2       \* Contexts the program creates for itself
MaxCopies == 1     \* copies made of Contexts (SpecCtx)
MaxClosed == 2     \* closed chain values kept by the program
MaxCtx == 4        \* Context objects alive at one time

----------------------------------------------------------------------------
(* Values *)

Nil == "<nil>"     \* how fmt prints a nil interface{} with %v

Keys == {"bish", "flip"}

\* The func(http.Handler) http.Handler values of stack_test.go.
ThirdParty == {"wobbleMiddleware"}

\* AdaptMiddleware(fn): the chainMiddleware func(ctx, h) { return fn(h) }.
AdaptMiddleware(fn) == "AdaptMiddleware(" \o fn \o ")"

Adapted == {AdaptMiddleware(fn) : fn \in ThirdParty}

\* The chainMiddleware values of stack_test.go.
MW == {"bishMiddleware", "flipMiddleware"} \cup Adapted

\* Middleware a caller may supply: two that write before and after they
\* call next, and one that writes and returns without calling next.
Nested == {"logMiddleware", "timeMiddleware"}
Stopping == {"stopMiddleware"}
Handlers == {"bishHandler", "flipHandler"}

\* The middleware lists a call of New or Append is given.
NewArgs == {<< >>, <<"bishMiddleware">>, <<"bishMiddleware", "flipMiddleware">>}
AppendArgs == {<<"flipMiddleware">>, <<AdaptMiddleware("wobbleMiddleware")>>,
               <<"flipMiddleware", "flipMiddleware">>}

\* The pairs the program itself puts in a Context (TestInit, TestInject).
ProgPairs == {<<"flip", "flop">>, <<"bish", "boop">>}

\* The middleware of c := Init(ctx).Append(...) in TestInit and TestReInit.
InitArgs == {<<"bishMiddleware">>, <<"flipMiddleware">>}

\* The pairs the goroutines of SpecCtx put.
PutPairs == {<<"bish", "bash">>, <<"flip", "flop">>, <<"bish", "boop">>}

Requests == {"r1", "r2"}
Threads == {"t1", "t2"}

NoH == "nil"       \* Chain.h before Then
EmptyMap == << >>  \* make(map[string]interface{})

NilSlice == [arr |-> 0, len |-> 0, cap |-> 0]

----------------------------------------------------------------------------
(* The Context methods as functions of the map (context.go). *)

\* NewContext: a fresh Context with an empty map.
NewContext == EmptyMap

\* A Put that keeps the value of a key that is present.
MapPutIfAbsent(m, key, val) ==
    [k \in (DOMAIN m) \cup {key} |-> IF k \in DOMAIN m THEN m[k] ELSE val]

\* c.m[key] = val
MapPut(m, key, val) == [k \in (DOMAIN m) \cup {key} |-> IF k = key THEN val ELSE m[k]]

\* A Delete that empties the map.
MapDeleteAll(m, key) == IF key \in DOMAIN m THEN << >> ELSE m

\* delete(c.m, key)
MapDelete(m, key) == [k \in (DOMAIN m) \ {key} |-> m[k]]

\* A Get that takes a stored nil for a missing key.
GetNilIsMissing(m, key) ==
    IF key \in DOMAIN m /\ m[key] # Nil
        THEN [val |-> m[key], err |-> ""]
        ELSE [val |-> Nil, err |-> "stack.Context: key \"" \o key \o "\" does not exist"]

\* Context.Get: the value and no error, or nil and the "does not exist" error.
Get(m, key) ==
    IF key \in DOMAIN m
        THEN [val |-> m[key], err |-> ""]
        ELSE [val |-> Nil, err |-> "stack.Context: key \"" \o key \o "\" does not exist"]

\* The least id not in use in a heap.
FreshId(heap) == CHOOSE i \in 1..(Cardinality(DOMAIN heap) + 1) : i \notin DOMAIN heap

----------------------------------------------------------------------------
(* Slices: the Go builtin append on a []chainMiddleware, as gc compiles it. *)

\* Capacities the allocator hands out for 8-byte elements (size classes
\* 8, 16, 24, 32, 48, 64, 80, 96, 112, 128 bytes).
SizeClassCaps == {1, 2, 3, 4, 6, 8, 10, 12, 14, 16}

RoundUpCap(n) == CHOOSE c \in SizeClassCaps : c >= n /\ \A d \in SizeClassCaps : d >= n => c <= d

\* runtime.growslice: double the old capacity unless more is asked for, then
\* round up to the allocator's size class.
GrowCap(oldCap, newLen) == RoundUpCap(IF newLen > 2 * oldCap THEN newLen ELSE 2 * oldCap)

\* append(s, xs...): in place when the capacity suffices, else on a new array.
GoAppend(arrs, s, xs) ==
    LET n == s.len + Len(xs) IN
    IF n <= s.cap \/ Len(xs) = 0
        THEN [arrays |-> IF Len(xs) = 0 THEN arrs
                         ELSE [arrs EXCEPT ![s.arr] =
                                 [i \in 1..s.cap |-> IF i > s.len /\ i <= n
                                                       THEN xs[i - s.len] ELSE @[i]]],
              slice |-> [s EXCEPT !.len = n]]
        ELSE LET c == GrowCap(s.cap, n)
                 id == FreshId(arrs)
                 new == [i \in 1..c |-> IF i <= s.len THEN arrs[s.arr][i]
                                        ELSE IF i <= n THEN xs[i - s.len] ELSE Nil]
             IN [arrays |-> [a \in (DOMAIN arrs) \cup {id} |-> IF a = id THEN new ELSE arrs[a]],
                 slice |-> [arr |-> id, len |-> n, cap |-> c]]

\* The elements of a slice: s[0], ..., s[len-1].
Elems(arrs, s) == [i \in 1..s.len |-> arrs[s.arr][i]]

----------------------------------------------------------------------------
(* Chains (stack.go).  A chain value is the Go struct {mws, h, baseCtx};   *)
(* `want` and `origin` are history fields: the middleware the chain was    *)
(* built to have and the call that returned it.                            *)

Mws(c) == Elems(arrays, c.mws)

\* Init(ctx): Chain{baseCtx: ctx}
InitChain(ctx) ==
    [mws |-> NilSlice, h |-> NoH, baseCtx |-> ctx, want |-> << >>, origin |-> "Init"]

\* The value c.Append(mws...) returns and the heap it leaves.
AppendTo(arrs, c, mws) ==
    LET r == GoAppend(arrs, c.mws, mws) IN
    [arrays |-> r.arrays,
     chain |-> [c EXCEPT !.mws = r.slice, !.want = @ \o mws, !.origin = "Append"]]

\* c.Then(chf): the chain with its handler set, as a closedChain.
ThenValue(c, h) == [c EXCEPT !.h = h]

\* ctx := NewContext() in the program.
ProgNewContext ==
    /\ Cardinality(DOMAIN ctxs) < MaxCtx
    /\ LET id == FreshId(ctxs) IN
         /\ ctxs' = [c \in (DOMAIN ctxs) \cup {id} |-> IF c = id THEN NewContext ELSE ctxs[c]]
         /\ held' = held \cup {id}
    /\ UNCHANGED <<arrays, chains, closed, req, lockVars>>

\* ctx.Put(key, val) by the program on a Context it holds.
ProgPut(c, key, val) ==
    /\ c \in held
    /\ Get(ctxs[c], key).val # val
    /\ ctxs' = [ctxs EXCEPT ![c] = MapPut(@, key, val)]
    /\ UNCHANGED <<arrays, chains, closed, held, req, lockVars>>

\* c := Init(ctx)
StackInit(ctx) ==
    /\ ctx \in held
    /\ chains = {}
    /\ chains' = {InitChain(ctx)}
    /\ UNCHANGED <<arrays, closed, ctxs, held, req, lockVars>>

\* c := Init(ctx).Append(mws...), as TestInit and the README write it.
StackInitAppend(ctx, mws) ==
    /\ ctx \in held
    /\ chains = {}
    /\ LET r == AppendTo(arrays, InitChain(ctx), mws) IN
          /\ arrays' = r.arrays
          /\ chains' = {r.chain}
    /\ UNCHANGED <<closed, ctxs, held, req, lockVars>>

\* c := New(mws...) == Init(NewContext()).Append(mws...)
New(mws) ==
    /\ chains = {}
    /\ Cardinality(DOMAIN ctxs) < MaxCtx
    /\ LET id == FreshId(ctxs)
           r == AppendTo(arrays, InitChain(id), mws)
       IN /\ ctxs' = [c \in (DOMAIN ctxs) \cup {id} |-> IF c = id THEN NewContext ELSE ctxs[c]]
          /\ arrays' = r.arrays
          /\ chains' = {[r.chain EXCEPT !.origin = "New"]}
    /\ UNCHANGED <<closed, held, req, lockVars>>

\* Append with a pointer receiver: the chain it is called on is changed too.
ChainAppendPtr(c, mws) ==
    /\ c \in chains
    /\ Cardinality(chains) < MaxChains
    /\ LET r == AppendTo(arrays, c, mws) IN
          /\ arrays' = r.arrays
          /\ chains' = (chains \ {c}) \cup {r.chain}
    /\ UNCHANGED <<closed, ctxs, held, req, lockVars>>

\* b := c.Append(mws...): the receiver is a copy of c, so c itself is kept.
ChainAppend(c, mws) ==
    /\ c \in chains
    /\ Cardinality(chains) < MaxChains
    /\ LET r == AppendTo(arrays, c, mws) IN
          /\ arrays' = r.arrays
          /\ chains' = chains \cup {r.chain}
    /\ UNCHANGED <<closed, ctxs, held, req, lockVars>>

\* Then with a pointer receiver: the handler is set on the open chain too.
ThenPtr(c, h) ==
    /\ c \in chains
    /\ Cardinality(closed) < MaxClosed
    /\ ThenValue(c, h) \notin closed
    /\ closed' = closed \cup {ThenValue(c, h)}
    /\ chains' = (chains \ {c}) \cup {ThenValue(c, h)}
    /\ UNCHANGED <<arrays, ctxs, held, req, lockVars>>

\* cc := c.Then(h)
Then(c, h) ==
    /\ c \in chains
    /\ Cardinality(closed) < MaxClosed
    /\ ThenValue(c, h) \notin closed
    /\ closed' = closed \cup {ThenValue(c, h)}
    /\ UNCHANGED <<arrays, chains, ctxs, held, req, lockVars>>

\* ReInit(ctx, cc): the closed chain with its base context replaced.
ReInitValue(ctx, cc) == [cc EXCEPT !.baseCtx = ctx, !.origin = "ReInit"]

\* cc2 := ReInit(ctx, cc)
ReInit(ctx, cc) ==
    /\ ctx \in held
    /\ cc \in closed
    /\ Cardinality(closed) < MaxClosed
    /\ ReInitValue(ctx, cc) \notin closed
    /\ closed' = closed \cup {ReInitValue(ctx, cc)}
    /\ UNCHANGED <<arrays, chains, ctxs, held, req, lockVars>>

----------------------------------------------------------------------------
(* The middleware and handlers of stack_test.go. *)

\* An adapter whose fn is handed the context and clears it.
MiddlewarePutAdaptedClears(m, cm) ==
    IF m = "bishMiddleware" THEN MapPut(cm, "bish", "bash")
    ELSE IF m \in Adapted THEN EmptyMap ELSE cm

\* A middleware that never short-circuits.
DelegatesAlways(m) == TRUE

\* What a middleware does to the context before it calls next.
MiddlewarePut(m, cm) == IF m = "bishMiddleware" THEN MapPut(cm, "bish", "bash") ELSE cm

\* The function an adapted middleware runs: AdaptMiddleware(fn)(ctx, h) is fn(h).
Fn(m) == IF m \in Adapted THEN CHOOSE fn \in ThirdParty : AdaptMiddleware(fn) = m ELSE m

\* What a middleware writes before it calls next.
MiddlewareWrite(m) == Fn(m) \o ">"

\* What a middleware writes after next has returned ("" when nothing).
MiddlewarePost(m) == IF m \in Nested THEN "<" \o m ELSE ""

\* Every middleware of the tests calls next.ServeHTTP.
Delegates(m) == m \in MW \cup Nested

\* Returning to the outermost wrapper first.
ResumeOutermost(final, n) ==
    LET S == {p \in 1..n : MiddlewarePost(final[p]) # ""} IN
    IF S = {} THEN 0 ELSE CHOOSE p \in S : \A q \in S : p <= q

\* The innermost wrapper among the first n that has code left to run when
\* its next returns; 0 when there is none.
Resume(final, n) ==
    LET S == {p \in 1..n : MiddlewarePost(final[p]) # ""} IN
    IF S = {} THEN 0 ELSE CHOOSE p \in S : \A q \in S : q <= p

\* What a handler writes, given the context map it reads.
HandlerWrite(h, cm) ==
    IF h = "bishHandler"
        THEN "bishHandler [bish=" \o Get(cm, "bish").val \o "]"
        ELSE "flipHandler [bish=" \o Get(cm, "bish").val \o ",flip=" \o Get(cm, "flip").val \o "]"

----------------------------------------------------------------------------
(* closedChain.ServeHTTP, one goroutine per request. *)

NoCC == [mws |-> NilSlice, h |-> NoH, baseCtx |-> 0, want |-> << >>, origin |-> "none"]

\* `start` is a history field: the pairs the request context started with.
Idle == [pc |-> "idle", cc |-> NoCC, ctx |-> 0, start |-> EmptyMap, final |-> << >>,
         i |-> 0, ret |-> 0, out |-> << >>]

\* copy returning its receiver: no new Context is made.
CopyOfShared(heap, c) == [ctx |-> c, heap |-> heap]

\* copy returning a new Context without the pairs of c.
CopyOfEmpty(heap, c) ==
    LET id == FreshId(heap) IN
    [ctx |-> id,
     heap |-> [x \in (DOMAIN heap) \cup {id} |-> IF x = id THEN NewContext ELSE heap[x]]]

\* Context.copy as ServeHTTP uses it: a new Context holding the pairs of c.
\* (Its locking is modelled step by step in SpecCtx.)
CopyOf(heap, c) ==
    LET id == FreshId(heap) IN
    [ctx |-> id,
     heap |-> [x \in (DOMAIN heap) \cup {id} |-> IF x = id THEN heap[c] ELSE heap[x]]]

\* The loop run from first to last: the last middleware ends up outermost.
WrapFirstToLast(mws) == [i \in 1..Len(mws) |-> mws[Len(mws) + 1 - i]]

\* The loop of lines 126-128 wraps the handler in the middleware from last to
\* first; the result lists the wrappers outermost first.
Wrap(mws) == mws

\* The handler, or the middleware, given the chain's base context instead of
\* the request's copy.
HandlerCtxBase(r) == req[r].cc.baseCtx
MiddlewareCtxBase(r) == req[r].cc.baseCtx

\* The Context the handler and every middleware are given (lines 125, 127).
HandlerCtx(r) == req[r].ctx
MiddlewareCtx(r) == req[r].ctx

\* Lines 123-128: copy the base context, build the wrapped handler.
ServeHTTP(r, cc) ==
    /\ req[r].pc = "idle"
    /\ cc \in closed
    /\ Cardinality(DOMAIN ctxs) < MaxCtx
    /\ LET cp == CopyOf(ctxs, cc.baseCtx) IN
         /\ ctxs' = cp.heap
         /\ req' = [req EXCEPT ![r] = [pc |-> "serve", cc |-> cc, ctx |-> cp.ctx,
                                       start |-> cp.heap[cp.ctx],
                                       final |-> Wrap(Mws(cc)), i |-> 1, ret |-> 0,
                                       out |-> << >>]]
    /\ UNCHANGED <<arrays, chains, closed, held, lockVars>>

\* Where the request is once a call has returned to wrapper p (0: to the
\* caller of ServeHTTP).  Wrappers with nothing to run after next are
\* returned through at once.
Returned(p) == IF p = 0 THEN "done" ELSE "unwind"

\* The wrapper at position i runs up to and including its call of next, or,
\* when it does not call next, until it returns.
RunMiddleware(r) ==
    /\ req[r].pc = "serve"
    /\ req[r].i <= Len(req[r].final)
    /\ LET m == req[r].final[req[r].i]
           p == Resume(req[r].final, req[r].i - 1)
       IN
         /\ ctxs' = [ctxs EXCEPT ![MiddlewareCtx(r)] = MiddlewarePut(m, @)]
         /\ req' = [req EXCEPT ![r].out = Append(@, MiddlewareWrite(m)),
                               ![r].i = @ + 1,
                               ![r].ret = IF Delegates(m) THEN 0 ELSE p,
                               ![r].pc = IF Delegates(m) THEN "serve" ELSE Returned(p)]
    /\ UNCHANGED <<arrays, chains, closed, held, lockVars>>

\* The innermost next is the handler; it writes and returns.
RunHandler(r) ==
    /\ req[r].pc = "serve"
    /\ req[r].i = Len(req[r].final) + 1
    /\ LET p == Resume(req[r].final, Len(req[r].final)) IN
         req' = [req EXCEPT ![r].out = Append(@, HandlerWrite(req[r].cc.h, ctxs[HandlerCtx(r)])),
                            ![r].ret = p,
                            ![r].pc = Returned(p)]
    /\ UNCHANGED <<arrays, chains, closed, ctxs, held, lockVars>>

\* next has returned to the wrapper at position ret: it runs the code after
\* its call of next and returns.
Return(r) ==
    /\ req[r].pc = "unwind"
    /\ LET m == req[r].final[req[r].ret]
           p == Resume(req[r].final, req[r].ret - 1)
       IN req' = [req EXCEPT ![r].out = Append(@, MiddlewarePost(m)),
                             ![r].ret = p,
                             ![r].pc = Returned(p)]
    /\ UNCHANGED <<arrays, chains, closed, ctxs, held, lockVars>>

\* ServeHTTP returns; nothing refers to the request context any more.
Finish(r) ==
    /\ req[r].pc = "done"
    /\ ctxs' = [c \in (DOMAIN ctxs) \ {req[r].ctx} |-> ctxs[c]]
    /\ req' = [req EXCEPT ![r] = Idle]
    /\ UNCHANGED <<arrays, chains, closed, held, lockVars>>

----------------------------------------------------------------------------
(* Initial state: nothing built, no goroutine running. *)

Init ==
    /\ arrays = << >>
    /\ chains = {}
    /\ closed = {}
    /\ ctxs = << >>
    /\ held = {}
    /\ req = [r \in Requests |-> Idle]
    /\ mu = << >>
    /\ th = << >>
    /\ copies = {}

----------------------------------------------------------------------------
(* SpecAppend: a program that builds one chain with New or Init and keeps  *)
(* appending to the chains it holds.                                       *)

NextAppend ==
    \/ held = {} /\ ProgNewContext
    \/ \E c \in held : StackInit(c)
    \/ \E mws \in NewArgs : New(mws)
    \/ \E c \in chains, mws \in AppendArgs : ChainAppend(c, mws)

SpecAppend == Init /\ [][NextAppend]_vars

----------------------------------------------------------------------------
(* Spec: a program that builds chains, closes them and serves one request  *)
(* at a time.                                                              *)

Next ==
    \/ held = {} /\ ProgNewContext
    \/ \E c \in held : StackInit(c)
    \/ \E mws \in NewArgs : New(mws)
    \/ \E c \in chains, mws \in AppendArgs :
          Cardinality(chains) < MaxOpen /\ ChainAppend(c, mws)
    \/ \E c \in chains, h \in Handlers : Then(c, h)
    \/ \E cc \in closed : ServeHTTP("r1", cc)
    \/ RunMiddleware("r1")
    \/ RunHandler("r1")
    \/ Finish("r1")

Spec == Init /\ [][Next]_vars

----------------------------------------------------------------------------
(* SpecServe: a program that builds and closes one chain and keeps using   *)
(* the Context it passed to Init while two requests are served             *)
(* concurrently.                                                           *)

NextServe ==
    \/ held = {} /\ ProgNewContext
    \/ \E c \in held, kv \in ProgPairs : ProgPut(c, kv[1], kv[2])
    \/ \E c \in held, mws \in InitArgs : StackInitAppend(c, mws)
    \/ \E mws \in NewArgs : New(mws)
    \/ \E c \in chains, h \in Handlers : Then(c, h)
    \/ \E r \in Requests, cc \in closed : ServeHTTP(r, cc)
    \/ \E r \in Requests : RunMiddleware(r)
    \/ \E r \in Requests : RunHandler(r)
    \/ \E r \in Requests : Finish(r)

SpecServe == Init /\ [][NextServe]_vars

----------------------------------------------------------------------------
(* SpecBase: a program that builds and closes one chain, rebases it on     *)
(* Contexts of its own and serves one request at a time.                   *)

NextBase ==
    \/ Cardinality(held) < MaxHeld /\ ProgNewContext
    \/ \E c \in held, kv \in ProgPairs : ProgPut(c, kv[1], kv[2])
    \/ \E c \in held, mws \in InitArgs : StackInitAppend(c, mws)
    \/ \E mws \in NewArgs : New(mws)
    \/ \E c \in chains, h \in Handlers : Then(c, h)
    \/ \E c \in held, cc \in closed : ReInit(c, cc)
    \/ \E cc \in closed : ServeHTTP("r1", cc)
    \/ RunMiddleware("r1")
    \/ RunHandler("r1")
    \/ Finish("r1")

SpecBase == Init /\ [][NextBase]_vars

----------------------------------------------------------------------------
(* SpecCtx: goroutines sharing Context pointers (context.go), one step per *)
(* lock operation and per access to the map.  mu[c] is the RWMutex of      *)
(* Context c: the goroutines holding it for reading, and the one holding   *)
(* it for writing.                                                         *)

NoThread == "none"
Unlocked == [readers |-> {}, writer |-> NoThread]

IdleT == [pc |-> "idle", c |-> 0, key |-> "", val |-> "", err |-> "", nc |-> 0,
          todo |-> {}, seen |-> {}]

\* A fatal error of the Go runtime ends the process.
Alive == \A t \in Threads : th[t].pc # "fatal"

\* sync.RWMutex: RLock waits for the writer, Lock for the writer and the readers.
CanRLock(c) == mu[c].writer = NoThread
CanLock(c) == mu[c].writer = NoThread /\ mu[c].readers = {}

RLock(t, c) == [mu EXCEPT ![c].readers = @ \cup {t}]
RUnlock(t, c) == [mu EXCEPT ![c].readers = @ \ {t}]
Lock(t, c) == [mu EXCEPT ![c].writer = t]
Unlock(t, c) == [mu EXCEPT ![c].writer = NoThread]

\* Get, line 187: c.mu.RLock()
GetRLock(t, c, key) ==
    /\ Alive /\ th[t].pc = "idle" /\ c \in DOMAIN ctxs
    /\ CanRLock(c)
    /\ mu' = RLock(t, c)
    /\ th' = [th EXCEPT ![t] = [IdleT EXCEPT !.pc = "Get_read", !.c = c, !.key = key]]
    /\ UNCHANGED <<ctxs, copies, chainVars>>

\* Get, lines 189-192: the lookup in c.m
GetRead(t) ==
    /\ Alive /\ th[t].pc = "Get_read"
    /\ th' = [th EXCEPT ![t].pc = "Get_RUnlock",
                        ![t].val = Get(ctxs[th[t].c], th[t].key).val,
                        ![t].err = Get(ctxs[th[t].c], th[t].key).err]
    /\ UNCHANGED <<ctxs, mu, copies, chainVars>>

\* Get, line 188: the deferred c.mu.RUnlock()
GetRUnlock(t) ==
    /\ Alive /\ th[t].pc = "Get_RUnlock"
    /\ mu' = RUnlock(t, th[t].c)
    /\ th' = [th EXCEPT ![t] = IdleT]
    /\ UNCHANGED <<ctxs, copies, chainVars>>

\* Put with the read lock taken where the write lock is needed.
PutRLock(t, c, key, val) ==
    /\ Alive /\ th[t].pc = "idle" /\ c \in DOMAIN ctxs
    /\ CanRLock(c)
    /\ mu' = RLock(t, c)
    /\ th' = [th EXCEPT ![t] = [IdleT EXCEPT !.pc = "Put_write", !.c = c, !.key = key, !.val = val]]
    /\ UNCHANGED <<ctxs, copies, chainVars>>

\* Put, line 196: c.mu.Lock()
PutLock(t, c, key, val) ==
    /\ Alive /\ th[t].pc = "idle" /\ c \in DOMAIN ctxs
    /\ CanLock(c)
    /\ mu' = Lock(t, c)
    /\ th' = [th EXCEPT ![t] = [IdleT EXCEPT !.pc = "Put_write", !.c = c, !.key = key, !.val = val]]
    /\ UNCHANGED <<ctxs, copies, chainVars>>

\* Put, line 198: c.m[key] = val
PutWrite(t) ==
    /\ Alive /\ th[t].pc = "Put_write"
    /\ ctxs' = [ctxs EXCEPT ![th[t].c] = MapPut(@, th[t].key, th[t].val)]
    /\ th' = [th EXCEPT ![t].pc = "Put_Unlock"]
    /\ UNCHANGED <<mu, copies, chainVars>>

\* Put, line 197: the deferred c.mu.Unlock()
PutUnlock(t) ==
    /\ Alive /\ th[t].pc = "Put_Unlock"
    /\ mu' = Unlock(t, th[t].c)
    /\ th' = [th EXCEPT ![t] = IdleT]
    /\ UNCHANGED <<ctxs, copies, chainVars>>

\* Delete, line 202: c.mu.Lock()
DeleteLock(t, c, key) ==
    /\ Alive /\ th[t].pc = "idle" /\ c \in DOMAIN ctxs
    /\ CanLock(c)
    /\ mu' = Lock(t, c)
    /\ th' = [th EXCEPT ![t] = [IdleT EXCEPT !.pc = "Delete_write", !.c = c, !.key = key]]
    /\ UNCHANGED <<ctxs, copies, chainVars>>

\* Delete, line 204: delete(c.m, key)
DeleteWrite(t) ==
    /\ Alive /\ th[t].pc = "Delete_write"
    /\ ctxs' = [ctxs EXCEPT ![th[t].c] = MapDelete(@, th[t].key)]
    /\ th' = [th EXCEPT ![t].pc = "Delete_Unlock"]
    /\ UNCHANGED <<mu, copies, chainVars>>

\* Delete, line 203: the deferred c.mu.Unlock()
DeleteUnlock(t) ==
    /\ Alive /\ th[t].pc = "Delete_Unlock"
    /\ mu' = Unlock(t, th[t].c)
    /\ th' = [th EXCEPT ![t] = IdleT]
    /\ UNCHANGED <<ctxs, copies, chainVars>>

\* A copy that shares the map of its source instead of filling a new one.
CopyNewAlias(t, c) ==
    /\ Alive /\ th[t].pc = "idle" /\ c \in DOMAIN ctxs
    /\ th' = [th EXCEPT ![t] = [IdleT EXCEPT !.pc = "Copy_RLock", !.c = c, !.nc = c]]
    /\ UNCHANGED <<ctxs, mu, copies, chainVars>>

\* copy, line 208: nc := NewContext()
CopyNew(t, c) ==
    /\ Alive /\ th[t].pc = "idle" /\ c \in DOMAIN ctxs
    /\ LET id == FreshId(ctxs) IN
         /\ ctxs' = [x \in (DOMAIN ctxs) \cup {id} |-> IF x = id THEN NewContext ELSE ctxs[x]]
         /\ mu' = [x \in (DOMAIN mu) \cup {id} |-> IF x = id THEN Unlocked ELSE mu[x]]
         /\ th' = [th EXCEPT ![t] = [IdleT EXCEPT !.pc = "Copy_RLock", !.c = c, !.nc = id]]
    /\ UNCHANGED <<copies, chainVars>>

\* copy, line 209: c.mu.RLock()
CopyRLock(t) ==
    /\ Alive /\ th[t].pc = "Copy_RLock"
    /\ CanRLock(th[t].c)
    /\ mu' = RLock(t, th[t].c)
    /\ th' = [th EXCEPT ![t].pc = "Copy_RUnlock"]
    /\ UNCHANGED <<ctxs, copies, chainVars>>

\* copy, line 210: c.mu.RUnlock(), not deferred: the lock is given up here
CopyRUnlock(t) ==
    /\ Alive /\ th[t].pc = "Copy_RUnlock"
    /\ mu' = RUnlock(t, th[t].c)
    /\ th' = [th EXCEPT ![t].pc = "Copy_range"]
    /\ UNCHANGED <<ctxs, copies, chainVars>>

\* copy, line 211: the range loop starts on the keys c.m has now
CopyRangeStart(t) ==
    /\ Alive /\ th[t].pc = "Copy_range"
    /\ th' = [th EXCEPT ![t].todo = DOMAIN ctxs[th[t].c],
                        ![t].pc = IF DOMAIN ctxs[th[t].c] = {} THEN "Copy_return" ELSE "Copy_iter"]
    /\ UNCHANGED <<ctxs, mu, copies, chainVars>>

\* copy, lines 211-213: one iteration.  The loop yields the keys in any
\* order; a key deleted before it is reached is not yielded, a key inserted
\* during the loop may be.
CopyIter(t, k) ==
    /\ Alive /\ th[t].pc = "Copy_iter"
    /\ k \in th[t].todo \cup ((DOMAIN ctxs[th[t].c]) \ th[t].seen)
    /\ ctxs' = IF k \in DOMAIN ctxs[th[t].c]
                 THEN [ctxs EXCEPT ![th[t].nc] = MapPut(@, k, ctxs[th[t].c][k])]
                 ELSE ctxs
    /\ th' = [th EXCEPT ![t].todo = @ \ {k}, ![t].seen = @ \cup {k},
                        ![t].pc = IF th[t].todo \ {k} = {} THEN "Copy_return" ELSE "Copy_iter"]
    /\ UNCHANGED <<mu, copies, chainVars>>

\* The writers of Context c that are between their Lock and their Unlock.
Writing(c) == {u \in Threads : th[u].c = c /\ th[u].pc \in {"Put_write", "Delete_write"}}

\* copy, line 211: a map read that runs while another goroutine writes the
\* map is a data race; the runtime may stop the process ("concurrent map
\* iteration and map write").
CopyRace(t) ==
    /\ Alive /\ th[t].pc \in {"Copy_range", "Copy_iter"}
    /\ Writing(th[t].c) \ {t} # {}
    /\ th' = [th EXCEPT ![t].pc = "fatal"]
    /\ UNCHANGED <<ctxs, mu, copies, chainVars>>

\* copy, line 214: return nc
CopyReturn(t) ==
    /\ Alive /\ th[t].pc = "Copy_return"
    /\ copies' = copies \cup {<<th[t].c, th[t].nc>>}
    /\ th' = [th EXCEPT ![t] = IdleT]
    /\ UNCHANGED <<ctxs, mu, chainVars>>

\* The Contexts a goroutine can have a pointer to: the first one and the
\* copies that were returned.
Published == {1} \cup {p[2] : p \in copies}

InitCtx ==
    /\ arrays = << >>
    /\ chains = {}
    /\ closed = {}
    /\ held = {}
    /\ req = [r \in Requests |-> Idle]
    /\ ctxs = <<NewContext>>
    /\ mu = <<Unlocked>>
    /\ th = [t \in Threads |-> IdleT]
    /\ copies = {}

NextCtx ==
    \/ \E t \in Threads, c \in Published, k \in Keys : GetRLock(t, c, k)
    \/ \E t \in Threads : GetRead(t)
    \/ \E t \in Threads : GetRUnlock(t)
    \/ \E t \in Threads, c \in Published, kv \in PutPairs : PutLock(t, c, kv[1], kv[2])
    \/ \E t \in Threads : PutWrite(t)
    \/ \E t \in Threads : PutUnlock(t)
    \/ \E t \in Threads, c \in Published, k \in Keys : DeleteLock(t, c, k)
    \/ \E t \in Threads : DeleteWrite(t)
    \/ \E t \in Threads : DeleteUnlock(t)
    \/ \E t \in Threads, c \in Published :
          Cardinality(DOMAIN ctxs) <= MaxCopies /\ CopyNew(t, c)
    \/ \E t \in Threads : CopyRLock(t)
    \/ \E t \in Threads : CopyRUnlock(t)
    \/ \E t \in Threads : CopyRangeStart(t)
    \/ \E t \in Threads, k \in Keys : CopyIter(t, k)
    \/ \E t \in Threads : CopyRace(t)
    \/ \E t \in Threads : CopyReturn(t)

SpecCtx == InitCtx /\ [][NextCtx]_vars

----------------------------------------------------------------------------
(* SpecInject: a program that builds and closes one chain, takes copies of  *)
(* its base context with BaseCtx, changes them, rebases the chain with      *)
(* Inject, and serves one request at a time.                                *)

\* The pairs Inject is called with (TestInject).
InjectPairs == {<<"bish", "boop">>, <<"flip", "flop">>}

\* ctx.Delete(key) by the program on a Context it holds.
ProgDelete(c, key) ==
    /\ c \in held
    /\ key \in DOMAIN ctxs[c]
    /\ ctxs' = [ctxs EXCEPT ![c] = MapDelete(@, key)]
    /\ UNCHANGED <<arrays, chains, closed, held, req, lockVars>>

\* bc := cc.BaseCtx(): a copy of the base context, which the program holds.
BaseCtx(cc) ==
    /\ cc \in closed
    /\ Cardinality(DOMAIN ctxs) < MaxCtx
    /\ LET cp == CopyOf(ctxs, cc.baseCtx) IN
         /\ ctxs' = cp.heap
         /\ held' = held \cup {cp.ctx}
         /\ copies' = copies \cup {<<cc.baseCtx, cp.ctx>>}
    /\ UNCHANGED <<arrays, chains, closed, req, mu, th>>

\* cc2 := Inject(cc, key, val): cc on a new base context, which holds the
\* pairs of cc's base context and key=val.
Inject(cc, key, val) ==
    /\ cc \in closed
    /\ Cardinality(closed) < MaxClosed
    /\ Cardinality(DOMAIN ctxs) < MaxCtx
    /\ LET id == FreshId(ctxs)
           n == [cc EXCEPT !.baseCtx = id, !.origin = "Inject"]
       IN /\ ctxs' = [x \in (DOMAIN ctxs) \cup {id} |->
                        IF x = id THEN MapPut(ctxs[cc.baseCtx], key, val) ELSE ctxs[x]]
          /\ closed' = closed \cup {n}
    /\ UNCHANGED <<arrays, chains, held, req, lockVars>>

NextInject ==
    \/ held = {} /\ ProgNewContext
    \/ \E c \in held, kv \in ProgPairs : ProgPut(c, kv[1], kv[2])
    \/ \E c \in held, k \in Keys : ProgDelete(c, k)
    \/ \E c \in held : StackInitAppend(c, <<"bishMiddleware">>)
    \/ New(<<"flipMiddleware">>)
    \/ \E c \in chains : Then(c, "flipHandler")
    \/ \E cc \in closed : Cardinality(held) < MaxHeld /\ BaseCtx(cc)
    \/ \E cc \in closed, kv \in InjectPairs : Inject(cc, kv[1], kv[2])
    \/ \E cc \in closed : ServeHTTP("r1", cc)
    \/ RunMiddleware("r1")
    \/ RunHandler("r1")
    \/ Finish("r1")

SpecInject == Init /\ [][NextInject]_vars

----------------------------------------------------------------------------
(* SpecInit: a program that fills a Context, passes it to Init, appends to  *)
(* the chain, closes it and serves one request at a time (TestInit).        *)

NextInit ==
    \/ held = {} /\ ProgNewContext
    \/ \E c \in held, kv \in ProgPairs : chains = {} /\ ProgPut(c, kv[1], kv[2])
    \/ \E c \in held : StackInit(c)
    \/ \E c \in chains, mws \in InitArgs :
          Cardinality(chains) < MaxSeeded /\ ChainAppend(c, mws)
    \/ \E c \in chains, h \in Handlers : Then(c, h)
    \/ \E cc \in closed : ServeHTTP("r1", cc)
    \/ RunMiddleware("r1")
    \/ RunHandler("r1")
    \/ Finish("r1")

SpecInit == Init /\ [][NextInit]_vars

----------------------------------------------------------------------------
(* SpecNest: a program that builds one chain with New from native, adapted, *)
(* nesting and short-circuiting middleware, closes it and serves one request *)
(* at a time.                                                                *)

NestMW == MW \cup Nested \cup Stopping

NestArgs == UNION {[1..n -> NestMW] : n \in 0..MaxNest}

NextNest ==
    \/ \E mws \in NestArgs : New(mws)
    \/ \E c \in chains, h \in Handlers : Then(c, h)
    \/ \E cc \in closed : ServeHTTP("r1", cc)
    \/ RunMiddleware("r1")
    \/ RunHandler("r1")
    \/ Return("r1")
    \/ Finish("r1")

SpecNest == Init /\ [][NextNest]_vars

----------------------------------------------------------------------------
(* SpecKV: one goroutine calling Get, Put and Delete on one Context, with   *)
(* the keys and values of context_test.go: a stored nil, a key never put.   *)

KVKeys == Keys \cup {"wibble"}
KVPairs == PutPairs \cup {<<"bish", Nil>>}

NextKV ==
    \/ \E k \in KVKeys : GetRLock("t1", 1, k)
    \/ GetRead("t1")
    \/ GetRUnlock("t1")
    \/ \E kv \in KVPairs : PutLock("t1", 1, kv[1], kv[2])
    \/ PutWrite("t1")
    \/ PutUnlock("t1")
    \/ \E k \in KVKeys : DeleteLock("t1", 1, k)
    \/ DeleteWrite("t1")
    \/ DeleteUnlock("t1")

SpecKV == InitCtx /\ [][NextKV]_vars

----------------------------------------------------------------------------
(* SpecThen: a program that builds a chain with New, closes the chains it   *)
(* holds with several handlers, goes on appending to them and serves one    *)
(* request at a time (README, "Re-using chains").                           *)

NextThen ==
    \/ New(<<"bishMiddleware", "flipMiddleware">>)
    \/ \E c \in chains, mws \in AppendArgs :
          Cardinality(chains) < MaxReused /\ ChainAppend(c, mws)
    \/ \E c \in chains, h \in Handlers : Then(c, h)
    \/ \E cc \in closed : ServeHTTP("r1", cc)
    \/ RunMiddleware("r1")
    \/ RunHandler("r1")
    \/ Finish("r1")

SpecThen == Init /\ [][NextThen]_vars

----------------------------------------------------------------------------
(* Properties of chain construction and of one invocation (Spec). *)

\* What one invocation writes when the middleware mws all call next and the
\* handler h reads the context map cm.
Writes(mws, h, cm) == [i \in 1..Len(mws) |-> MiddlewareWrite(mws[i])] \o <<HandlerWrite(h, cm)>>

Running(r) == req[r].pc \in {"serve", "done"}

\* C1: an invocation of New(m1..mn).Then(h), every mi calling next, writes
\* the effects of m1, ..., mn and then h, each once and in that order; while
\* the invocation runs, what it has written is the prefix it has reached.
C1_Order ==
    \A r \in Requests :
        (Running(r) /\ req[r].cc.origin = "New"
                    /\ \A i \in DOMAIN req[r].cc.want : Delegates(req[r].cc.want[i]))
        => LET e == Writes(req[r].cc.want, req[r].cc.h, ctxs[req[r].ctx]) IN
             /\ req[r].pc = "serve" => req[r].out = SubSeq(e, 1, req[r].i - 1)
             /\ req[r].pc = "done" => req[r].out = e

C1_Witness ==
    \E r \in Requests :
        /\ req[r].pc = "done"
        /\ req[r].cc.origin = "New"
        /\ req[r].cc.want = <<"bishMiddleware", "flipMiddleware">>
        /\ Len(req[r].out) = 3

\* C2: c.Append(mws...) leaves c as it was -- the program still holds the
\* same value, with the same middleware sequence and the same base context
\* contents -- and returns a chain on c's base context whose sequence is c's
\* followed by mws.
C2_AppendKeepsReceiver ==
    [][\A c \in chains, mws \in AppendArgs :
          ChainAppend(c, mws) =>
              LET b == AppendTo(arrays, c, mws).chain IN
              /\ c \in chains'
              /\ Elems(arrays', c.mws) = Mws(c)
              /\ ctxs'[c.baseCtx] = ctxs[c.baseCtx]
              /\ b \in chains'
              /\ b.baseCtx = c.baseCtx
              /\ Elems(arrays', b.mws) = Mws(c) \o mws]_vars

\* An Append was made in place, in the spare capacity of the receiver's array.
C2_Witness ==
    \E a \in chains, b \in chains :
        /\ b.origin = "Append"
        /\ a.mws.len > 0
        /\ b.mws.arr = a.mws.arr
        /\ b.mws.len > a.mws.len
        /\ Mws(a) = a.want
        /\ Mws(b) = b.want

\* C3: every chain the program holds still has the middleware sequence it
\* was built with: its receiver's sequence followed by what was appended.
C3_NoInterference == \A c \in chains : Mws(c) = c.want

\* C9: once bishMiddleware has run in an invocation, the context given to the
\* later middleware and to the handler holds bish=bash, the handler writes
\* that value, and New(bish, flip).Then(bishHandler) writes
\* bishMiddleware>flipMiddleware>bishHandler [bish=bash].
C9_SameContext ==
    \A r \in Requests :
        /\ (Running(r) /\ \E p \in 1..(req[r].i - 1) : req[r].final[p] = "bishMiddleware")
            => /\ Get(ctxs[MiddlewareCtx(r)], "bish").val = "bash"
               /\ Get(ctxs[HandlerCtx(r)], "bish").val = "bash"
               /\ req[r].pc = "done" =>
                     req[r].out[Len(req[r].out)] =
                        HandlerWrite(req[r].cc.h, MapPut(ctxs[req[r].ctx], "bish", "bash"))
        /\ (req[r].pc = "done" /\ req[r].cc.origin = "New"
               /\ req[r].cc.want = <<"bishMiddleware", "flipMiddleware">>
               /\ req[r].cc.h = "bishHandler")
            => req[r].out = <<"bishMiddleware>", "flipMiddleware>", "bishHandler [bish=bash]">>

C9_Witness ==
    \E r \in Requests :
        /\ req[r].pc = "done"
        /\ req[r].cc.want = <<"bishMiddleware", "flipMiddleware">>
        /\ req[r].cc.h = "bishHandler"
        /\ req[r].out = <<"bishMiddleware>", "flipMiddleware>", "bishHandler [bish=bash]">>

----------------------------------------------------------------------------
(* Properties of concurrent invocations (SpecServe). *)

\* The context map after the first n middleware of mws have run on m.
RECURSIVE AfterPuts(_, _, _)
AfterPuts(mws, n, m) == IF n = 0 THEN m ELSE MiddlewarePut(mws[n], AfterPuts(mws, n - 1, m))

\* C4: two invocations running at the same time have different request
\* contexts, neither of them a base context or a Context of the program, and
\* the context of each holds what it started with and what its own
\* middleware have put so far, whatever the other invocation has done.
C4_OwnContext ==
    \A r \in Requests :
        Running(r) =>
            /\ \A q \in Requests \ {r} : Running(q) => req[q].ctx # req[r].ctx
            /\ req[r].ctx \notin held \cup {cc.baseCtx : cc \in closed}
            /\ MiddlewareCtx(r) = req[r].ctx
            /\ HandlerCtx(r) = req[r].ctx
            /\ ctxs[req[r].ctx] = AfterPuts(req[r].final, req[r].i - 1, req[r].start)

\* One invocation has put bish=bash while another, of the same closed chain,
\* has not yet run its middleware and does not see the key.
C4_Witness ==
    \E r \in Requests, q \in Requests :
        /\ r # q
        /\ Running(r) /\ Running(q)
        /\ req[r].cc = req[q].cc
        /\ Get(ctxs[req[r].ctx], "bish").val = "bash"
        /\ "bish" \notin DOMAIN ctxs[req[q].ctx]
        /\ req[q].final[1] = "bishMiddleware"

RequestStep(r) ==
    \/ \E cc \in closed : ServeHTTP(r, cc)
    \/ RunMiddleware(r)
    \/ RunHandler(r)
    \/ Finish(r)

\* C5: no step of an invocation changes the map of the base context of any
\* chain, open or closed.
C5_BaseUntouched ==
    [][(\E r \in Requests : RequestStep(r)) =>
          \A c \in chains \cup closed : ctxs'[c.baseCtx] = ctxs[c.baseCtx]]_vars

\* An invocation has finished whose middleware put bish=bash, and the base
\* context of its chain still has no bish.
C5_Witness ==
    \E r \in Requests :
        /\ req[r].pc = "done"
        /\ Get(ctxs[req[r].ctx], "bish").val = "bash"
        /\ "bish" \notin DOMAIN ctxs[req[r].cc.baseCtx]

----------------------------------------------------------------------------
(* Properties of rebasing (SpecBase). *)

\* C10: ReInit(ctx, cc) adds a closed chain with cc's middleware and handler
\* whose base context is ctx, and leaves cc, its middleware and every Context
\* as they were; an invocation of a closed chain starts from the pairs its
\* base context holds and runs its middleware.
C10_ReInit ==
    [][/\ \A c \in held, cc \in closed :
            ReInit(c, cc) =>
                LET n == ReInitValue(c, cc) IN
                /\ closed' = closed \cup {n}
                /\ n.baseCtx = c
                /\ n.h = cc.h
                /\ Elems(arrays', n.mws) = Mws(cc)
                /\ Elems(arrays', cc.mws) = Mws(cc)
                /\ ctxs' = ctxs
       /\ \A r \in Requests, cc \in closed :
            ServeHTTP(r, cc) =>
                /\ ctxs'[req'[r].ctx] = ctxs[cc.baseCtx]
                /\ req'[r].final = Mws(cc)
                /\ \A x \in DOMAIN ctxs : ctxs'[x] = ctxs[x]]_vars

\* TestReInit: the rebased chain has written bish=boop from its new base
\* context, and the chain it was made from is still held, on a base context
\* without bish.
C10_Witness ==
    \E r \in Requests, cc \in closed :
        /\ req[r].pc = "done"
        /\ req[r].cc.origin = "ReInit"
        /\ req[r].out[Len(req[r].out)] = "flipHandler [bish=boop,flip=flop]"
        /\ cc.origin # "ReInit"
        /\ cc.mws = req[r].cc.mws
        /\ cc.h = req[r].cc.h
        /\ "bish" \notin DOMAIN ctxs[cc.baseCtx]

----------------------------------------------------------------------------
(* Properties of the Context under concurrent use (SpecCtx). *)

Reading(c) == {u \in Threads : th[u].c = c /\ th[u].pc \in {"Get_read", "Get_RUnlock"}}
Holding(c) == {u \in Threads : th[u].c = c /\ th[u].pc \in {"Put_write", "Put_Unlock",
                                                           "Delete_write", "Delete_Unlock"}}

\* C6: from the start of copy's range loop to its end, no step changes the
\* map of the Context being copied.
C6_CopyHoldsReadLock ==
    [][\A t \in Threads :
          th[t].pc = "Copy_iter" => ctxs'[th[t].c] = ctxs[th[t].c]]_vars

\* C7: while a Put or a Delete is between its Lock and its Unlock on a
\* Context, no other Get, Put or Delete is between its lock and its unlock on
\* that Context.
C7_WriterExcludes ==
    \A c \in DOMAIN ctxs :
        Holding(c) # {} => Cardinality(Holding(c)) = 1 /\ Reading(c) = {}

\* Two Gets are inside their read lock on the same Context.
C7_Witness ==
    \E c \in DOMAIN ctxs : Cardinality({u \in Reading(c) : th[u].pc = "Get_read"}) = 2

\* C8: a copy is another Context than its source, and a step that changes
\* what Get returns on one of the two changes nothing of what Get returns on
\* the other.
C8_CopyIndependence ==
    [][\A p \in copies :
          /\ p[1] # p[2]
          /\ (\E k \in Keys : Get(ctxs'[p[1]], k) # Get(ctxs[p[1]], k))
                => \A k \in Keys : Get(ctxs'[p[2]], k) = Get(ctxs[p[2]], k)
          /\ (\E k \in Keys : Get(ctxs'[p[2]], k) # Get(ctxs[p[2]], k))
                => \A k \in Keys : Get(ctxs'[p[1]], k) = Get(ctxs[p[1]], k)]_vars

\* A copy that held bish=bash when it was returned has since been changed,
\* while its source still holds the pair.
C8_Witness ==
    \E p \in copies :
        /\ Get(ctxs[p[1]], "bish").val = "bash"
        /\ Get(ctxs[p[2]], "bish").val = "boop"
        /\ "flip" \in DOMAIN ctxs[p[1]]
        /\ "flip" \notin DOMAIN ctxs[p[2]]

----------------------------------------------------------------------------
(* Properties of BaseCtx and Inject (SpecInject). *)

\* C11: Inject(cc, k, v) adds the closed chain that ReInit returns for the
\* Context BaseCtx() returns once k=v is put in it: a chain with cc's
\* middleware and handler on a new base context holding k=v and every other
\* pair of cc's base context, which no later step changes; cc's base context
\* is left as it was; every invocation starts from the pairs of its chain's
\* base context, so that for New(flipMiddleware).Then(flipHandler) and
\* bish=boop the new chain writes bish=boop and the original bish=<nil>.
C11_Inject ==
    [][/\ \A cc \in closed, kv \in InjectPairs :
            Inject(cc, kv[1], kv[2]) =>
                LET bc == CopyOf(ctxs, cc.baseCtx)
                    put == [bc.heap EXCEPT ![bc.ctx] = MapPut(@, kv[1], kv[2])]
                    n == [ReInitValue(bc.ctx, cc) EXCEPT !.origin = "Inject"]
                IN /\ closed' = closed \cup {n}
                   /\ ctxs' = put
                   /\ Get(ctxs'[n.baseCtx], kv[1]) = [val |-> kv[2], err |-> ""]
                   /\ \A k \in Keys \ {kv[1]} :
                         Get(ctxs'[n.baseCtx], k) = Get(ctxs[cc.baseCtx], k)
                   /\ n.baseCtx \notin DOMAIN ctxs
                   /\ \A x \in DOMAIN ctxs : ctxs'[x] = ctxs[x]
                   /\ n.h = cc.h
                   /\ Elems(arrays', n.mws) = Mws(cc)
       /\ \A cc \in closed :
            cc.origin \in {"Inject", "New"} => ctxs'[cc.baseCtx] = ctxs[cc.baseCtx]
       /\ \A cc \in closed :
            ServeHTTP("r1", cc) => /\ req'["r1"].start = ctxs[cc.baseCtx]
                                   /\ ctxs'[req'["r1"].ctx] = ctxs[cc.baseCtx]
       /\ (RunHandler("r1") /\ req["r1"].cc.want = <<"flipMiddleware">>) =>
            LET out == req'["r1"].out[Len(req'["r1"].out)]
                base == ctxs[req["r1"].cc.baseCtx]
            IN /\ req["r1"].cc.origin = "New"
                    => out = "flipHandler [bish=<nil>,flip=<nil>]"
               /\ (req["r1"].cc.origin = "Inject" /\ base = [k \in {"bish"} |-> "boop"])
                    => out = "flipHandler [bish=boop,flip=<nil>]"]_vars

\* TestInject: an invocation of New(flipMiddleware).Then(flipHandler) begun
\* after Inject(st, "bish", "boop") has written bish=<nil>.
C11_Witness ==
    \E n \in closed :
        /\ n.origin = "Inject"
        /\ ctxs[n.baseCtx] = [k \in {"bish"} |-> "boop"]
        /\ req["r1"].pc = "done"
        /\ req["r1"].cc.origin = "New"
        /\ req["r1"].cc.mws = n.mws
        /\ n.baseCtx < req["r1"].ctx
        /\ req["r1"].out = <<"flipMiddleware>", "flipHandler [bish=<nil>,flip=<nil>]">>

\* C12: cc.BaseCtx() returns a new Context holding the pairs of cc's base
\* context, and a Put or Delete the program makes on a Context BaseCtx
\* returned changes no other Context: not the base context it was copied
\* from, and not the context of a running invocation.
C12_BaseCtxIndependent ==
    [][/\ \A cc \in closed :
            BaseCtx(cc) =>
                \E c \in held' \ held :
                    /\ c \notin DOMAIN ctxs
                    /\ ctxs'[c] = ctxs[cc.baseCtx]
                    /\ \A x \in DOMAIN ctxs : ctxs'[x] = ctxs[x]
       /\ \A p \in copies :
            ((\E kv \in ProgPairs : ProgPut(p[2], kv[1], kv[2]))
                \/ (\E k \in Keys : ProgDelete(p[2], k)))
            => /\ ctxs'[p[1]] = ctxs[p[1]]
               /\ ctxs[p[2]] # ctxs'[p[2]]
               /\ \A x \in DOMAIN ctxs \ {p[2]} : ctxs'[x] = ctxs[x]
               /\ Running("r1") => ctxs'[req["r1"].ctx] = ctxs[req["r1"].ctx]]_vars

\* TestBaseCtx: the program has changed the Context BaseCtx returned, the
\* base context still holds flip=flop only, and an invocation of the chain
\* begun from it is running.
C12_Witness ==
    \E p \in copies, cc \in closed :
        /\ cc.baseCtx = p[1]
        /\ ctxs[p[1]] = [k \in {"flip"} |-> "flop"]
        /\ ctxs[p[2]] = [k \in {"flip", "bish"} |-> IF k = "flip" THEN "flop" ELSE "boop"]
        /\ p[2] \in held
        /\ Running("r1")
        /\ req["r1"].cc = cc
        /\ req["r1"].start = ctxs[p[1]]
        /\ p[2] < req["r1"].ctx

----------------------------------------------------------------------------
(* Properties of a caller-supplied base context (SpecInit). *)

\* The keys the first n middleware of mws put.
PutKeys(mws, n) == DOMAIN AfterPuts(mws, n, EmptyMap)

\* C13 as stated: every pair of the Context passed to Init is what the
\* middleware and the handler of every invocation find under its key.
C13_SeedObserved ==
    \A r \in Requests :
        Running(r) =>
            \A k \in DOMAIN ctxs[req[r].cc.baseCtx] :
                /\ Get(ctxs[MiddlewareCtx(r)], k) = [val |-> ctxs[req[r].cc.baseCtx][k], err |-> ""]
                /\ Get(ctxs[HandlerCtx(r)], k) = [val |-> ctxs[req[r].cc.baseCtx][k], err |-> ""]

\* C13: every key of the Context passed to Init is present in the context
\* the middleware and the handler of every invocation are given, with the
\* value it had in that Context unless a middleware of the chain that has
\* already run in the invocation put the key, and then with that
\* middleware's value; the handler writes what this context holds.
C13_SeedObservedUnlessPut ==
    \A r \in Requests :
        Running(r) =>
            LET base == ctxs[req[r].cc.baseCtx]
                ran == req[r].i - 1
            IN /\ \A k \in DOMAIN base :
                    /\ Get(ctxs[MiddlewareCtx(r)], k).err = ""
                    /\ Get(ctxs[HandlerCtx(r)], k).err = ""
                    /\ k \notin PutKeys(req[r].final, ran) =>
                          /\ Get(ctxs[MiddlewareCtx(r)], k).val = base[k]
                          /\ Get(ctxs[HandlerCtx(r)], k).val = base[k]
               /\ \A k \in PutKeys(req[r].final, ran) :
                    Get(ctxs[HandlerCtx(r)], k).val = AfterPuts(req[r].final, ran, EmptyMap)[k]
               /\ req[r].pc = "done" =>
                    req[r].out[Len(req[r].out)] = HandlerWrite(req[r].cc.h, ctxs[HandlerCtx(r)])

\* A chain made by Init and two Appends has served a request whose handler
\* wrote flip=flop from the Context passed to Init and bish=bash from the
\* chain's middleware.
C13_Witness ==
    \E r \in Requests :
        /\ req[r].pc = "done"
        /\ req[r].cc.origin = "Append"
        /\ Len(req[r].cc.want) = 2
        /\ ctxs[req[r].cc.baseCtx] = [k \in {"flip"} |-> "flop"]
        /\ req[r].cc.baseCtx \in held
        /\ req[r].out[Len(req[r].out)] = "flipHandler [bish=bash,flip=flop]"

\* The invocations of TestInit: Init(ctx).Append(bishMiddleware).Then(flipHandler)
\* with ctx holding flip=flop only.
TestInitDone(r) ==
    /\ req[r].pc = "done"
    /\ req[r].cc.origin = "Append"
    /\ Mws(req[r].cc) = <<"bishMiddleware">>
    /\ req[r].cc.h = "flipHandler"
    /\ ctxs[req[r].cc.baseCtx] = [k \in {"flip"} |-> "flop"]

\* C14 as stated: in that invocation the handler reads flip=flop and finds
\* bish absent.
C14_BishAbsent ==
    \A r \in Requests :
        TestInitDone(r) =>
            /\ Get(ctxs[HandlerCtx(r)], "flip") = [val |-> "flop", err |-> ""]
            /\ Get(ctxs[HandlerCtx(r)], "bish").err # ""

\* C14: in that invocation the handler reads flip=flop and bish=bash, the
\* value bishMiddleware put before it delegated, and the invocation writes
\* bishMiddleware>flipHandler [bish=bash,flip=flop].
C14_BishBash ==
    \A r \in Requests :
        TestInitDone(r) =>
            /\ Get(ctxs[HandlerCtx(r)], "flip") = [val |-> "flop", err |-> ""]
            /\ Get(ctxs[HandlerCtx(r)], "bish") = [val |-> "bash", err |-> ""]
            /\ req[r].out = <<"bishMiddleware>", "flipHandler [bish=bash,flip=flop]">>

C14_Witness == \E r \in Requests : TestInitDone(r) /\ Len(req[r].out) = 2

----------------------------------------------------------------------------
(* Properties of the call structure of one invocation (SpecNest). *)

Active(r) == req[r].pc # "idle"

IsPrefix(a, b) == Len(a) <= Len(b) /\ a = SubSeq(b, 1, Len(a))

\* What the first n middleware of mws write before they call next.
Pre(mws, n) == [p \in 1..n |-> MiddlewareWrite(mws[p])]

\* What the first n middleware of mws write after next has returned, the
\* innermost first.
RECURSIVE Posts(_, _)
Posts(mws, n) ==
    IF n = 0 THEN << >>
    ELSE (IF MiddlewarePost(mws[n]) # "" THEN <<MiddlewarePost(mws[n])>> ELSE << >>)
         \o Posts(mws, n - 1)

\* C15: once the middleware at position s has run without calling next, no
\* middleware after position s and not the handler runs in that invocation:
\* the invocation never goes further in, what it writes is what m1..ms wrote
\* in order followed by what m(s-1)..m1 write after their next returned, and
\* the context holds what m1..ms put and nothing of a later middleware.
C15_ShortCircuit ==
    \A r \in Requests :
        Active(r) =>
            \A s \in 1..Len(req[r].final) :
                (req[r].final[s] \in Stopping /\ req[r].i > s) =>
                    LET f == req[r].final
                        whole == Pre(f, s) \o Posts(f, s - 1)
                    IN /\ req[r].i = s + 1
                       /\ req[r].pc # "serve"
                       /\ IsPrefix(Pre(f, s), req[r].out)
                       /\ IsPrefix(req[r].out, whole)
                       /\ req[r].pc = "done" => req[r].out = whole
                       /\ ctxs[req[r].ctx] = AfterPuts(f, s, req[r].start)

\* New(flipMiddleware, stopMiddleware, bishMiddleware).Then(bishHandler) has
\* returned: neither bishMiddleware nor the handler wrote or put anything.
C15_Witness ==
    /\ req["r1"].pc = "done"
    /\ req["r1"].final = <<"flipMiddleware", "stopMiddleware", "bishMiddleware">>
    /\ req["r1"].cc.h = "bishHandler"
    /\ req["r1"].out = <<"flipMiddleware>", "stopMiddleware>">>
    /\ ctxs[req["r1"].ctx] = EmptyMap

\* C16: when every middleware of the chain writes before and after it calls
\* next, an invocation writes pre(m1), ..., pre(mn), h, post(mn), ...,
\* post(m1): at every moment what is written is a prefix of that trace, all
\* of it once the invocation has returned, and a middleware's code after
\* next runs only once the handler has written.
C16_WellNested ==
    \A r \in Requests :
        (Active(r) /\ \A p \in DOMAIN req[r].final : req[r].final[p] \in Nested) =>
            LET f == req[r].final
                n == Len(f)
                whole == [p \in 1..n |-> f[p] \o ">"]
                         \o <<HandlerWrite(req[r].cc.h, ctxs[req[r].ctx])>>
                         \o [p \in 1..n |-> "<" \o f[n + 1 - p]]
            IN /\ IsPrefix(req[r].out, whole)
               /\ req[r].pc = "done" => req[r].out = whole
               /\ req[r].pc = "unwind" => /\ Len(req[r].out) > n
                                          /\ req[r].ret = 2 * n + 1 - Len(req[r].out)
               /\ req[r].pc = "serve" => Len(req[r].out) = req[r].i - 1

C16_Witness ==
    /\ req["r1"].pc = "done"
    /\ req["r1"].final = <<"logMiddleware", "timeMiddleware">>
    /\ req["r1"].out = <<"logMiddleware>", "timeMiddleware>", "bishHandler [bish=<nil>]",
                         "<timeMiddleware", "<logMiddleware">>

\* The native middleware among the first n of mws.
Native(mws, n) == SelectSeq(SubSeq(mws, 1, n), LAMBDA m : m \notin Adapted)

\* C20: AdaptMiddleware(fn) at position p of a chain runs fn at position p
\* of the invocation, which then goes on with the middleware after p and
\* the handler, and the request context holds what the native middleware
\* that have run put, unchanged by fn, so that a bish=bash put before p is
\* what the later middleware and the handler find;
\* New(bishMiddleware, AdaptMiddleware(wobbleMiddleware), flipMiddleware)
\* .Then(bishHandler) writes
\* bishMiddleware>wobbleMiddleware>flipMiddleware>bishHandler [bish=bash].
C20_Adapted ==
    \A r \in Requests :
        Active(r) =>
            LET f == req[r].final
                ran == req[r].i - 1
                nat == Native(f, ran)
            IN /\ \A p \in 1..ran :
                    f[p] \in Adapted =>
                        /\ \E fn \in ThirdParty :
                              /\ f[p] = AdaptMiddleware(fn)
                              /\ req[r].out[p] = fn \o ">"
                        /\ \A q \in 1..(p - 1) :
                              f[q] = "bishMiddleware" =>
                                  Get(ctxs[req[r].ctx], "bish") = [val |-> "bash", err |-> ""]
               /\ ctxs[req[r].ctx] = AfterPuts(nat, Len(nat), req[r].start)
               /\ (req[r].pc = "done" /\ \A p \in DOMAIN f : f[p] \in MW) =>
                    req[r].out = Pre(f, Len(f)) \o <<HandlerWrite(req[r].cc.h, ctxs[req[r].ctx])>>
               /\ (req[r].pc = "done" /\ req[r].cc.h = "bishHandler"
                     /\ f = <<"bishMiddleware", AdaptMiddleware("wobbleMiddleware"), "flipMiddleware">>)
                    => req[r].out = <<"bishMiddleware>", "wobbleMiddleware>", "flipMiddleware>",
                                      "bishHandler [bish=bash]">>

\* TestMixedMiddleware.
C20_Witness ==
    /\ req["r1"].pc = "done"
    /\ req["r1"].final = <<"bishMiddleware", "AdaptMiddleware(wobbleMiddleware)", "flipMiddleware">>
    /\ req["r1"].out = <<"bishMiddleware>", "wobbleMiddleware>", "flipMiddleware>",
                         "bishHandler [bish=bash]">>

----------------------------------------------------------------------------
(* Properties of Get, Put and Delete (SpecKV). *)

\* C17: Get(k) returns the stored value and no error when k is a key of the
\* map, a stored nil included, and nil with the error
\* stack.Context: key "k" does not exist when it is not; no step of Get
\* changes the map.
C17_Get ==
    [][\A t \in Threads :
          /\ GetRead(t) =>
                LET m == ctxs[th[t].c]
                    k == th[t].key
                IN /\ k \in DOMAIN m => th'[t].val = m[k] /\ th'[t].err = ""
                   /\ k \notin DOMAIN m =>
                        /\ th'[t].val = Nil
                        /\ th'[t].err = "stack.Context: key \"" \o k \o "\" does not exist"
                        /\ k = "wibble" =>
                              th'[t].err = "stack.Context: key \"wibble\" does not exist"
          /\ ((\E k \in KVKeys : GetRLock(t, 1, k)) \/ GetRead(t) \/ GetRUnlock(t))
                => ctxs' = ctxs]_vars

\* TestGet: Get("bish") has returned the stored nil with no error from a map
\* that also holds flip=flop.
C17_Witness ==
    /\ th["t1"].pc = "Get_RUnlock"
    /\ th["t1"].key = "bish"
    /\ th["t1"].val = Nil
    /\ th["t1"].err = ""
    /\ ctxs[1] = [k \in {"bish", "flip"} |-> IF k = "bish" THEN Nil ELSE "flop"]

\* C18: when Put(k, v) has written, the map holds v under k, so that Get(k)
\* returns v and no error, whether k was present or not, and every other key
\* is present or absent as before, with the value it had.
C18_Put ==
    [][\A t \in Threads :
          PutWrite(t) =>
              LET c == th[t].c
                  k == th[t].key
              IN /\ k \in DOMAIN ctxs'[c]
                 /\ ctxs'[c][k] = th[t].val
                 /\ Get(ctxs'[c], k) = [val |-> th[t].val, err |-> ""]
                 /\ DOMAIN ctxs'[c] = (DOMAIN ctxs[c]) \cup {k}
                 /\ \A j \in (DOMAIN ctxs[c]) \ {k} : ctxs'[c][j] = ctxs[c][j]]_vars

\* Put("bish", "boop") has overwritten another value of bish next to flip=flop.
C18_Witness ==
    /\ th["t1"].pc = "Put_Unlock"
    /\ th["t1"].key = "bish"
    /\ th["t1"].val = "boop"
    /\ ctxs[1] = [k \in {"bish", "flip"} |-> IF k = "bish" THEN "boop" ELSE "flop"]

\* C19: when Delete(k) has written, k is not a key of the map, so that
\* Get(k) reports it as not existing; when k was absent the map is as it
\* was; every other key is present or absent as before, with the value it
\* had; Delete returns nothing, so there is no error to raise.
C19_Delete ==
    [][\A t \in Threads :
          DeleteWrite(t) =>
              LET c == th[t].c
                  k == th[t].key
              IN /\ k \notin DOMAIN ctxs'[c]
                 /\ Get(ctxs'[c], k).err = "stack.Context: key \"" \o k \o "\" does not exist"
                 /\ k \notin DOMAIN ctxs[c] => ctxs'[c] = ctxs[c]
                 /\ DOMAIN ctxs'[c] = (DOMAIN ctxs[c]) \ {k}
                 /\ \A j \in (DOMAIN ctxs[c]) \ {k} : ctxs'[c][j] = ctxs[c][j]
                 /\ th'[t].pc = "Delete_Unlock"]_vars

\* TestDelete: Delete("flip") has removed flip and left bish=bash.
C19_Witness ==
    /\ th["t1"].pc = "Delete_Unlock"
    /\ th["t1"].key = "flip"
    /\ ctxs[1] = [k \in {"bish"} |-> "bash"]

----------------------------------------------------------------------------
(* Properties of closing a chain that is used again (SpecThen). *)

\* The open chain a closed chain was made from.
OpenOf(cc) == [cc EXCEPT !.h = NoH]

\* C21: c.Then(h) adds a closed chain with c's middleware and the handler h
\* and leaves everything else as it was: the open chains (none of which
\* ever has a handler), the arrays, the closed chains made before; a later
\* c.Append(mws) changes the middleware of no closed chain made from c; and
\* an invocation of a closed chain runs the middleware of the chain it was
\* made from and then its own handler.
C21_ThenKeepsOpen ==
    [][/\ \A c \in chains, h \in Handlers :
            Then(c, h) =>
                LET cc == ThenValue(c, h) IN
                /\ chains' = chains
                /\ arrays' = arrays
                /\ closed' = closed \cup {cc}
                /\ cc.h = h
                /\ OpenOf(cc) = c
                /\ Elems(arrays', cc.mws) = Mws(c)
                /\ \A old \in closed : Elems(arrays', old.mws) = Mws(old)
       /\ \A c \in chains' : c.h = NoH
       /\ \A c \in chains, mws \in AppendArgs :
            ChainAppend(c, mws) =>
                \A cc \in closed :
                    OpenOf(cc) = c => /\ cc \in closed'
                                      /\ Elems(arrays', cc.mws) = Mws(cc)
       /\ \A cc \in closed :
            ServeHTTP("r1", cc) => /\ OpenOf(cc) \in chains
                                   /\ req'["r1"].final = Mws(OpenOf(cc))
       /\ RunHandler("r1") =>
            req'["r1"].out = Pre(req["r1"].final, Len(req["r1"].final))
                             \o <<HandlerWrite(req["r1"].cc.h, ctxs[req["r1"].ctx])>>]_vars

\* One open chain has been closed with both handlers and appended to in
\* place, and an invocation of one of the closed chains has written the
\* open chain's middleware and its own handler.
C21_Witness ==
    \E c \in chains, b \in chains, cc1 \in closed, cc2 \in closed :
        /\ OpenOf(cc1) = c /\ OpenOf(cc2) = c
        /\ cc1.h = "bishHandler" /\ cc2.h = "flipHandler"
        /\ b.origin = "Append"
        /\ b.mws.arr = c.mws.arr
        /\ b.mws.len > c.mws.len
        /\ c.mws.len = 3
        /\ b.want = c.want \o <<"flipMiddleware">>
        /\ req["r1"].pc = "done"
        /\ req["r1"].cc = cc1
        /\ req["r1"].out = <<"bishMiddleware>", "flipMiddleware>", "flipMiddleware>",
                             "bishHandler [bish=bash]">>

----------------------------------------------------------------------------
(* Properties of the Context the program passed to Init (SpecServe). *)

\* The pairs an invocation of c begun on the heap `heap` starts with.
StartOf(heap, c) == LET cp == CopyOf(heap, c.baseCtx) IN cp.heap[cp.ctx]

\* C22: once a chain is closed, a Put the program makes on a Context it
\* holds changes the pairs with which an invocation starts for no chain,
\* open or closed.
C22_BaseSnapshot ==
    [][(closed # {} /\ \E c \in held, kv \in ProgPairs : ProgPut(c, kv[1], kv[2]))
          => \A c \in chains \cup closed : StartOf(ctxs', c) = StartOf(ctxs, c)]_vars

============================================================================
